---------------------------- MODULE Spec2Model ----------------------------
(***************************************************************************)
(* WeathWise ML services: the optimize-portfolio endpoint with its         *)
(* equal-weight fallback, and the sentiment classifier's train / predict   *)
(* lifecycle behind the sentiment endpoint and its cache.                  *)
(*                                                                         *)
(* Conventions.  A Python str is a tuple of one-character strings, so that *)
(* strip() and upper() are computed.  A Python dict is a function whose     *)
(* DOMAIN is the dict's key set.  A float in [0,1] is an integer number of  *)
(* 1/Scale units; annualised statistics are integers in percent.           *)
(*                                                                         *)
(* The two request handlers of an endpoint run on one event loop: a         *)
(* handler runs without interruption from one await that suspends to the   *)
(* next, which is what the handler positions (optPc, sentPc, trainPc)      *)
(* record.                                                                 *)
(***************************************************************************)
EXTENDS Integers, Sequences, FiniteSets, TLC

VARIABLES
    optPc,          \* optimize_portfolio: "idle", "posted" (awaiting the backend), "done"
    optReq,         \* req.symbols of the request being handled
    optSymbols,     \* the handler's local `symbols`
    optBackendCalls,\* number of POST /market/yahoo-data issued for the request
    optCalls,       \* number of optimizer.optimize invocations for the request
    optError,       \* the exception optimize raised ("none" when it returned or was not called)
    optPath,        \* "none", "solved" (line 67) or "fallback" (line 76)
    optReturn,      \* what the handler returned or raised, before FastAPI's response model
    optResponse     \* what the caller receives

VARIABLES
    scaler,         \* analyzer.scaler: 0 unfitted, else the train_model call that fitted it
    model,          \* analyzer.model: 0 unfitted, else the train_model call that fitted it
    is_trained,     \* analyzer.is_trained
    last_metrics,   \* analyzer.last_metrics: 0 for {}, else the train_model call that wrote it
    trainCalls,     \* number of train_model invocations so far; the next one is trainCalls + 1
    completed,      \* the train_model calls that returned
    trainPc,        \* train_sentiment_model: "idle" or "retry" (between lines 99 and 103)
    trainSyms,      \* the handler's local `syms`
    trainResponse,  \* the last response of train_sentiment_model
    trainLog,       \* the last request train_sentiment_model took up, and trainCalls then
    redis,          \* _redis_client is connected (not None)
    cache,          \* the Redis entries ml:sentiment:{symbol}, None when absent
    sentPc,         \* get_market_sentiment: "idle", "get" or "set" (awaiting Redis)
    sentSym,        \* the handler's local `sym`
    sentBegan,      \* the latest completed training when the request arrived
    sentResult,     \* the handler's local `result` while the SETEX is awaited
    sentRequests,   \* number of sentiment requests and direct predict_sentiment calls
    sentResponse,   \* the last response of get_market_sentiment
    sentLog,        \* the symbol as the last request gave it, and how its GET and SETEX went
    lastPredict     \* the last invocation of analyzer.predict_sentiment

analyzerVars == <<scaler, model, is_trained, last_metrics, trainCalls, completed>>
trainVars == <<trainPc, trainSyms, trainResponse, trainLog>>
sentVars == <<redis, cache, sentPc, sentSym, sentBegan, sentResult, sentRequests,
              sentResponse, sentLog, lastPredict>>

optVars == <<optPc, optReq, optSymbols, optBackendCalls, optCalls, optError, optPath,
             optReturn, optResponse>>

VARIABLES
    lastTrain,      \* the last direct invocation of analyzer.train_model
    lastFetch,      \* the last direct invocation of a price-history function
    lastOptimize,   \* the last direct invocation of optimizer.optimize
    np_random,      \* numpy's global generator: its seed and the numbers drawn since
    frontReq,       \* the efficient-frontier request handled last
    frontResponse,  \* the last response of get_efficient_frontier
    frontRepeat     \* the call answered last asked what the call before it had asked

VARIABLES
    lastCall        \* the last direct invocation of _labels_from_close or _risk_metrics

frontVars == <<np_random, frontReq, frontResponse, frontRepeat>>
pureVars == <<lastCall>>
auxVars == <<lastTrain, lastFetch, lastOptimize, frontVars, pureVars>>

-----------------------------------------------------------------------------
(* Bounds *)

MaxSymbols == 3         \* longest req.symbols list of an optimize request
MaxTrainCalls == 3      \* train_model invocations in one run
MaxSentimentRequests == 2   \* sentiment requests and predict_sentiment calls in one run
MaxDirectCalls == 2     \* direct train_model invocations in one run
MaxTrainSymbols == 2    \* longest symbols list of a direct train_model invocation
MaxRows == 3            \* most rows, and most dates, a source delivers for a series
MaxDays == 4            \* longest price series handed to _risk_metrics

-----------------------------------------------------------------------------
(* Python values *)

Range(s) == {s[i] : i \in DOMAIN s}

Max(S) == CHOOSE x \in S : \A y \in S : y <= x

RECURSIVE SumSeq(_)
SumSeq(s) == IF s = <<>> THEN 0 ELSE Head(s) + SumSeq(Tail(s))

RECURSIVE SumDict(_)
SumDict(d) ==
    IF DOMAIN d = {} THEN 0
    ELSE LET k == CHOOSE k \in DOMAIN d : TRUE
         IN  d[k] + SumDict([j \in DOMAIN d \ {k} |-> d[j]])

\* dict(zip(keys, vals)) and {k: v for ...}: a later pair overwrites an earlier one
DictZip(keys, vals) ==
    [k \in Range(keys) |-> vals[Max({i \in DOMAIN keys : keys[i] = k})]]

\* str.upper() on one character
UpperChar(c) ==
    CASE c = "a" -> "A"
      [] c = "b" -> "B"
      [] c = "c" -> "C"
      [] OTHER   -> c

Upper(s) == [i \in DOMAIN s |-> UpperChar(s[i])]

\* str.strip(): leading and trailing whitespace removed
RECURSIVE LStrip(_)
LStrip(s) == IF s # <<>> /\ Head(s) = " " THEN LStrip(Tail(s)) ELSE s

RECURSIVE RStrip(_)
RStrip(s) ==
    IF s # <<>> /\ s[Len(s)] = " " THEN RStrip(SubSeq(s, 1, Len(s) - 1)) ELSE s

Strip(s) == RStrip(LStrip(s))

\* [s.strip().upper() for s in symbols if isinstance(s, str) and s.strip()]
CleanSymbols(raw) ==
    LET kept == SelectSeq(raw, LAMBDA s : Strip(s) # <<>>)
    IN  [i \in DOMAIN kept |-> Upper(Strip(kept[i]))]

\* The strings a request may carry as one symbol: empty, blank, and tickers in
\* both cases and with surrounding blanks
RawSymbols == { <<>>, <<" ">>, <<"a">>, <<"A", " ">>, <<" ", "b">>, <<"C">> }

Tickers == { <<"A">>, <<"B">>, <<"C">> }

SeqsUpTo(S, n) == UNION {[1..k -> S] : k \in 0..n}

\* A Python float is an IEEE 754 double: a significand of 53 bits.  A double is
\* held here as its sign, its integer part and FracBits binary places, which
\* is exact for every double between 0.02 and 4 in magnitude.
SignificandBits == 53

\* pandas' missing value
NaN == "NaN"

\* floor(log2(a / b)) for a, b > 0
RECURSIVE Exponent(_, _)
Exponent(a, b) ==
    IF a >= 2 * b THEN Exponent(a, 2 * b) + 1
    ELSE IF a < b THEN Exponent(2 * a, b) - 1
    ELSE 0

\* The binary places of the smallest double in use, 0.02
FracBits == SignificandBits - 1 - Exponent(1, 50)

Zeros(n) == [i \in 1..n |-> 0]

\* 2^i mod b
RECURSIVE PowerOfTwoMod(_, _)
PowerOfTwoMod(i, b) ==
    IF i = 0 THEN 1 % b
    ELSE LET h == PowerOfTwoMod(i \div 2, b)
         IN  (h * h * (IF i % 2 = 1 THEN 2 ELSE 1)) % b

\* The first n binary places of r / b for 0 <= r < b, and the remainder left:
\* long division, the remainder before place i being r * 2^(i-1) mod b
Quotient(r, b, n) ==
    [bits |-> [i \in 1..n |-> (2 * ((r * PowerOfTwoMod(i - 1, b)) % b)) \div b],
     rem |-> (r * PowerOfTwoMod(n, b)) % b]

\* One unit added in the last place
Increment(s) ==
    IF \A i \in DOMAIN s : s[i] = 1 THEN [bits |-> Zeros(Len(s)), carry |-> 1]
    ELSE LET j == Max({i \in DOMAIN s : s[i] = 0})
         IN  [bits |-> [i \in DOMAIN s |-> IF i < j THEN s[i] ELSE IF i = j THEN 1 ELSE 0],
              carry |-> 0]

\* The double a / b of two positive integers: the quotient rounded to 53
\* significant bits, to nearest, ties to even
Double(a, b) ==
    LET k == SignificandBits - 1 - Exponent(a, b)
        q == Quotient(a % b, b, k + 1)
        kept == SubSeq(q.bits, 1, k)
        lastBit == IF k = 0 THEN (a \div b) % 2 ELSE kept[k]
        up == q.bits[k + 1] = 1 /\ (q.rem > 0 \/ lastBit = 1)
        inc == Increment(kept)
    IN  [negative |-> FALSE,
         int |-> (a \div b) + (IF up THEN inc.carry ELSE 0),
         frac |-> (IF up THEN inc.bits ELSE kept) \o Zeros(FracBits - k)]

\* x - 1.0 for a double x in [0.5, 4): the difference is a double, no rounding
MinusOne(x) ==
    IF x.int >= 1 THEN [negative |-> FALSE, int |-> x.int - 1, frac |-> x.frac]
    ELSE IF x.frac = Zeros(FracBits) THEN [negative |-> TRUE, int |-> 1, frac |-> x.frac]
    ELSE [negative |-> TRUE, int |-> 0,
          frac |-> Increment([i \in DOMAIN x.frac |-> 1 - x.frac[i]]).bits]

Negated(x) == [x EXCEPT !.negative = ~x.negative]

\* |x| < |y|
MagnitudeLess(x, y) ==
    \/ x.int < y.int
    \/ /\ x.int = y.int
       /\ \E i \in DOMAIN x.frac :
            /\ x.frac[i] < y.frac[i]
            /\ \A j \in 1..(i - 1) : x.frac[j] = y.frac[j]

\* x < y on doubles other than -0.0
FloatLess(x, y) ==
    IF x.negative /\ ~y.negative THEN TRUE
    ELSE IF ~x.negative /\ y.negative THEN FALSE
    ELSE IF x.negative THEN MagnitudeLess(y, x)
    ELSE MagnitudeLess(x, y)


-----------------------------------------------------------------------------
(* routes/portfolio_analysis.py and services/portfolio_optimizer.py *)

\* 1.0 in weight units; the upper bound of every weight (bounds = (0, 1))
Scale == 60

\* The solver's answers lie on a grid of GridSteps steps between 0 and 1
GridSteps == 2

WeightGrid == {k * (Scale \div GridSteps) : k \in 0..GridSteps}

\* self.risk_free_rate, in percent
risk_free_rate == 3

\* Annualised statistics of the sample price data, in percent
SampleReturn(sym) == CASE sym = <<"A">> -> 8 [] sym = <<"B">> -> 3 [] OTHER -> 5
SampleVolatility(sym) == CASE sym = <<"A">> -> 10 [] sym = <<"B">> -> 5 [] OTHER -> 7
SampleRiskMetrics == [var_95 |-> -2, max_drawdown |-> -10, downside_deviation |-> 4]
PortfolioReturns == {8}
PortfolioVolatilities == {0, 10}

Now == "utcnow"

\* class OptimizeResponse: the fields the response model declares
OptimizeResponseFields ==
    {"symbols", "weights", "portfolio_stats", "asset_stats", "risk_metrics", "generated_at"}

\* response_model=OptimizeResponse: FastAPI validates the returned dict against the
\* model and serialises the model's declared fields only
ApplyResponseModel(d) == [f \in OptimizeResponseFields |-> d[f]]

HTTPException(code, text) == [status |-> code, detail |-> text]

Raised(text) == [raised |-> TRUE, error |-> text]
Returned(v) == [raised |-> FALSE, value |-> v]

\* calculate_portfolio_stats: the Sharpe ratio is 0 when the volatility is 0
calculate_portfolio_stats(ret, vol) ==
    [return |-> ret, volatility |-> vol,
     sharpe_ratio |-> IF vol > 0 THEN ((ret - risk_free_rate) * 100) \div vol ELSE 0]

\* What minimize(..., bounds, constraints) may report: success with a point that
\* satisfies the bounds and the sum-to-one constraint, or failure
SolverPoints(num) == {x \in [1..num -> WeightGrid] : SumSeq(x) = Scale}

\* The outcomes of the calls optimize makes to the market-data source and the solver
OptimizerWorlds(num) ==
    {[prices |-> "empty", success |-> FALSE, x |-> <<>>, ret |-> 0, vol |-> 0]}
    \cup {[prices |-> "ok", success |-> FALSE, x |-> <<>>, ret |-> 0, vol |-> 0]}
    \cup {[prices |-> "ok", success |-> TRUE, x |-> x, ret |-> r, vol |-> v] :
            x \in SolverPoints(num), r \in PortfolioReturns, v \in PortfolioVolatilities}

\* PortfolioOptimizer.optimize.  The price table has one column per distinct
\* ticker, so a list that repeats a ticker makes the objective multiply a vector of
\* len(symbols) weights with fewer column means, which raises.
optimize(symbols, o) ==
    IF o.prices = "empty" THEN Raised("Price data unavailable for symbols")
    ELSE IF Cardinality(Range(symbols)) # Len(symbols)
        THEN Raised("operands could not be broadcast together")
    ELSE IF ~o.success THEN Raised("Optimization failed: solver message")
    ELSE Returned(
        [symbols |-> symbols,
         weights |-> DictZip(symbols, o.x),
         portfolio_stats |-> calculate_portfolio_stats(o.ret, o.vol),
         asset_stats |->
            [s \in Range(symbols) |->
                [weight |-> DictZip(symbols, o.x)[s],
                 expected_return |-> SampleReturn(s),
                 volatility |-> SampleVolatility(s)]],
         risk_metrics |-> SampleRiskMetrics,
         generated_at |-> Now])

\* The fallback with the per-asset statistics left at the data's values
EqualWeightFallbackStale(symbols, opt_err) ==
    LET n == Len(symbols)
        w == Scale \div n
    IN  [symbols |-> symbols,
         weights |-> [s \in Range(symbols) |-> w],
         portfolio_stats |-> [return |-> 0, volatility |-> 0, sharpe_ratio |-> 0],
         asset_stats |->
            [s \in Range(symbols) |->
                [weight |-> w, expected_return |-> SampleReturn(s),
                 volatility |-> SampleVolatility(s)]],
         risk_metrics |-> [var_95 |-> 0, max_drawdown |-> 0, downside_deviation |-> 0],
         generated_at |-> Now,
         fallback |-> TRUE,
         message |-> <<"Optimizer failed: ", opt_err, ". Returning equal-weight targets.">>]

\* lines 70-85: the equal-weight dict the handler returns when optimize raised
EqualWeightFallback(symbols, opt_err) ==
    LET n == Len(symbols)
        w == Scale \div n
    IN  [symbols |-> symbols,
         weights |-> [s \in Range(symbols) |-> w],
         portfolio_stats |-> [return |-> 0, volatility |-> 0, sharpe_ratio |-> 0],
         asset_stats |->
            [s \in Range(symbols) |-> [weight |-> w, expected_return |-> 0, volatility |-> 0]],
         risk_metrics |-> [var_95 |-> 0, max_drawdown |-> 0, downside_deviation |-> 0],
         generated_at |-> Now,
         fallback |-> TRUE,
         message |-> <<"Optimizer failed: ", opt_err, ". Returning equal-weight targets.">>]

\* The replies of POST /market/yahoo-data: the request raised (timeout, refused), a
\* status other than 200, or 200 with rows naming the tickers the backend knows
BackendReplies ==
    {[kind |-> "exception", valid |-> {}], [kind |-> "status500", valid |-> {}]}
    \cup {[kind |-> "ok", valid |-> V] : V \in SUBSET Tickers}

\* line 62, negated: the list is long enough to optimise
EnoughSymbolsLax(symbols) == Len(symbols) >= 1
EnoughSymbols(symbols) == Len(symbols) >= 2

\* lines 44-60
ValidatedSymbols(symbols, reply) ==
    IF reply.kind = "ok" /\ reply.valid # {}
    THEN SelectSeq(symbols, LAMBDA s : s \in reply.valid)
    ELSE symbols

\* lines 32-43: up to the await of the backend call
OptimizeBegin(raw) ==
    /\ optPc = "idle"
    /\ optReq' = raw
    /\ LET symbols == CleanSymbols(raw)
       IN  IF symbols = <<>>
           THEN /\ optPc' = "done"
                /\ optReturn' = HTTPException(400, "symbols required")
                /\ optResponse' = HTTPException(400, "symbols required")
                /\ UNCHANGED <<optSymbols, optBackendCalls>>
           ELSE /\ optPc' = "posted"
                /\ optSymbols' = symbols
                /\ optBackendCalls' = optBackendCalls + 1
                /\ UNCHANGED <<optReturn, optResponse>>
    /\ UNCHANGED <<optCalls, optError, optPath, analyzerVars, trainVars, sentVars, auxVars>>

\* lines 44-63: fewer than two symbols are left
OptimizeReject(reply) ==
    /\ optPc = "posted"
    /\ LET symbols == ValidatedSymbols(optSymbols, reply)
       IN  /\ ~EnoughSymbols(symbols)
           /\ optSymbols' = symbols
           /\ optReturn' = HTTPException(400, "need at least two valid symbols for optimization")
           /\ optResponse' = HTTPException(400, "need at least two valid symbols for optimization")
    /\ optPc' = "done"
    /\ UNCHANGED <<optReq, optBackendCalls, optCalls, optError, optPath,
                   analyzerVars, trainVars, sentVars, auxVars>>

\* lines 44-92: the optimizer runs; its result, or the fallback, is returned
OptimizeRun(reply) ==
    /\ optPc = "posted"
    /\ LET symbols == ValidatedSymbols(optSymbols, reply)
       IN  /\ EnoughSymbols(symbols)
           /\ optSymbols' = symbols
           /\ \E o \in OptimizerWorlds(Len(symbols)) :
                LET r == optimize(symbols, o)
                IN  IF ~r.raised
                    THEN /\ optPath' = "solved"
                         /\ optError' = "none"
                         /\ optReturn' = [status |-> 200, body |-> r.value]
                         /\ optResponse' = [status |-> 200, body |-> ApplyResponseModel(r.value)]
                    ELSE /\ optError' = r.error
                         /\ IF Len(symbols) >= 2
                            THEN LET d == EqualWeightFallback(symbols, r.error)
                                 IN  /\ optPath' = "fallback"
                                     /\ optReturn' = [status |-> 200, body |-> d]
                                     /\ optResponse' = [status |-> 200, body |-> ApplyResponseModel(d)]
                            ELSE /\ optPath' = "none"
                                 /\ optReturn' = HTTPException(400, <<"optimization failed: ", r.error>>)
                                 /\ optResponse' = HTTPException(400, <<"optimization failed: ", r.error>>)
    /\ optPc' = "done"
    /\ optCalls' = optCalls + 1
    /\ UNCHANGED <<optReq, optBackendCalls, analyzerVars, trainVars, sentVars, auxVars>>

OptInit ==
    /\ optPc = "idle"
    /\ optReq = <<>>
    /\ optSymbols = <<>>
    /\ optBackendCalls = 0
    /\ optCalls = 0
    /\ optError = "none"
    /\ optPath = "none"
    /\ optReturn = [status |-> 0]
    /\ optResponse = [status |-> 0]

OptNext ==
    \/ \E raw \in SeqsUpTo(RawSymbols, MaxSymbols) : OptimizeBegin(raw)
    \/ \E reply \in BackendReplies : OptimizeReject(reply)
    \/ \E reply \in BackendReplies : OptimizeRun(reply)

-----------------------------------------------------------------------------
(* services/portfolio_optimizer.py and routes/portfolio_analysis.py: the
   efficient frontier *)

\* line 106: min(max(req.num_portfolios or 100, 20), 500)
DefaultPortfolios == 100
MinPortfolios == 20
MaxPortfolios == 500

\* line 123: np.random.seed(42)
FrontierSeed == 42

\* An Optional[int]: None, or a number
NoNumber == [given |-> FALSE]
Number(n) == [given |-> TRUE, value |-> n]

NumPortfoliosInputs == {NoNumber} \cup {Number(n) : n \in {0, -5, 5, 10000}}

\* Python's `x or d`: d when x is None or 0
OrDefault(x, d) == IF ~x.given \/ x.value = 0 THEN d ELSE x.value

Min2(a, b) == IF a < b THEN a ELSE b
Max2(a, b) == IF a > b THEN a ELSE b

ClampPortfolios(x) ==
    Min2(Max2(OrDefault(x, DefaultPortfolios), MinPortfolios), MaxPortfolios)

\* What get_historical_data delivers: nothing, or one of two price tables
MarketData == {"empty", "sample", "steady"}

\* returns[sym].mean() * 252 and returns[sym].std() * sqrt(252), in percent
AssetReturn(data, sym) ==
    IF data = "sample" THEN SampleReturn(sym)
    ELSE CASE sym = <<"A">> -> 6 [] sym = <<"B">> -> 5 [] OTHER -> 4
AssetVolatility(data, sym) ==
    IF data = "sample" THEN SampleVolatility(sym)
    ELSE CASE sym = <<"A">> -> 20 [] sym = <<"B">> -> 5 [] OTHER -> 9

\* The largest x in 0..hi with x * x <= v
ISqrt(v, hi) ==
    LET n == v
    IN  CHOOSE x \in 0..hi : x * x <= n /\ (x = hi \/ n < (x + 1) * (x + 1))

\* np.sum(returns.mean() * weights) * 252
PortfolioReturn(symbols, w, data) ==
    SumSeq([j \in DOMAIN symbols |-> AssetReturn(data, symbols[j]) * w[j]]) \div Scale

\* np.sqrt(w.T @ (returns.cov() * 252) @ w), the assets being uncorrelated
PortfolioVolatility(symbols, w, data) ==
    LET sq(j) == AssetVolatility(data, symbols[j]) * w[j]
    IN  ISqrt(SumSeq([j \in DOMAIN symbols |-> sq(j) * sq(j)]) \div (Scale * Scale),
              SumSeq([j \in DOMAIN symbols |-> AssetVolatility(data, symbols[j])]))

\* The k-th number a generator seeded with `seed` draws, in tenths
Stream(seed, k) == ((seed + k * k + 3 * k) % 9) + 1

\* The generator left as it is: efficient_frontier without line 123
KeepGenerator(g) == g

\* np.random.seed(42)
SeedGenerator(g) == [seed |-> FrontierSeed, drawn |-> 0]

\* lines 125-126: w = np.random.random(num); w /= np.sum(w), for the generator g
RandomWeights(g, num) ==
    LET r == [j \in 1..num |-> Stream(g.seed, g.drawn + j)]
        total == SumSeq(r)
    IN  [j \in 1..num |-> (r[j] * Scale) \div total]

\* PortfolioOptimizer.efficient_frontier with the generator g: what it raises or
\* returns, and the generator afterwards
efficient_frontier(symbols, num_portfolios, data, g) ==
    IF data = "empty"
    THEN [raised |-> TRUE, error |-> "Price data unavailable for symbols", rng |-> g]
    ELSE
    LET num == Len(symbols)
        g0 == SeedGenerator(g)
        at(i) == [g0 EXCEPT !.drawn = g0.drawn + (i - 1) * num]
        weights_array == [i \in 1..num_portfolios |-> RandomWeights(at(i), num)]
        rets == [i \in 1..num_portfolios |-> PortfolioReturn(symbols, weights_array[i], data)]
        vols == [i \in 1..num_portfolios |->
                    PortfolioVolatility(symbols, weights_array[i], data)]
    IN  IF Cardinality(Range(symbols)) # num
        THEN [raised |-> TRUE, error |-> "operands could not be broadcast together",
              rng |-> at(2)]
        ELSE [raised |-> FALSE,
              rng |-> at(num_portfolios + 1),
              value |->
                [returns |-> rets,
                 volatilities |-> vols,
                 sharpe_ratios |->
                    [i \in 1..num_portfolios |->
                        calculate_portfolio_stats(rets[i], vols[i]).sharpe_ratio],
                 weights |-> weights_array]]

FrontierSymbolInputs ==
    { << <<" ">> >>,
      << <<"a">>, <<" ">>, <<" ", "b">> >> }

Answered(response) == response.status = 200

\* What was asked of the optimizer: the cleaned symbols, the count and the data
FrontierCall(req) ==
    [symbols |-> CleanSymbols(req.symbols), count |-> ClampPortfolios(req.num),
     data |-> req.data]

\* get_efficient_frontier: the handler has no await and runs to its end
EfficientFrontier(raw, num, data) ==
    LET req == [symbols |-> raw, num |-> num, data |-> data]
        symbols == CleanSymbols(raw)
        r == efficient_frontier(symbols, ClampPortfolios(num), data, np_random)
    IN  /\ optPc \in {"idle", "done"}
        /\ frontReq' = req
        /\ IF symbols = <<>>
           THEN /\ frontResponse' = HTTPException(400, "symbols required")
                /\ frontRepeat' = FALSE
                /\ UNCHANGED np_random
           ELSE /\ np_random' = r.rng
                /\ frontResponse' =
                        IF r.raised THEN HTTPException(400, r.error)
                        ELSE [status |-> 200, body |-> r.value]
                /\ frontRepeat' =
                        /\ ~r.raised
                        /\ Answered(frontResponse)
                        /\ FrontierCall(req) = FrontierCall(frontReq)
        /\ UNCHANGED <<optVars, analyzerVars, trainVars, sentVars, lastTrain, lastFetch, lastOptimize, pureVars>>

FrontierNext ==
    \E raw \in FrontierSymbolInputs, num \in NumPortfoliosInputs, data \in MarketData :
        EfficientFrontier(raw, num, data)

-----------------------------------------------------------------------------
(* services/portfolio_optimizer.py: optimize with the solver computed *)

\* line 72: risk_mult, in halves
RiskMult(risk_tolerance) ==
    CASE risk_tolerance = "conservative" -> 1
      [] risk_tolerance = "moderate" -> 2
      [] risk_tolerance = "aggressive" -> 3
      [] OTHER -> 2

RiskTolerances == {"conservative", "moderate", "aggressive", "balanced"}

\* lines 82-84: the objective when no target return is given, in halves
Objective(symbols, w, data, risk_tolerance) ==
    0 - calculate_portfolio_stats(PortfolioReturn(symbols, w, data),
                                  PortfolioVolatility(symbols, w, data)).sharpe_ratio
        * RiskMult(risk_tolerance)

\* line 87: the points minimize can end at when it succeeds, those of the feasible
\* grid where the objective is least
Minimizers(symbols, data, risk_tolerance) ==
    LET value == [x \in SolverPoints(Len(symbols)) |->
                    Objective(symbols, x, data, risk_tolerance)]
    IN  {x \in DOMAIN value : \A y \in DOMAIN value : value[x] <= value[y]}

\* The rows of the return matrix calculate_returns builds
ReturnRows == {10, 40}

OptimizeSymbolLists ==
    { << <<"A">>, <<"B">> >>, << <<"B">>, <<"A">> >>,
      << <<"A">>, <<"B">>, <<"C">> >>, << <<"A">>, <<"A">> >> }

\* A caller invokes optimizer.optimize with no target return
OptimizeCall(symbols, risk_tolerance, data, rows, success) ==
    /\ data = "empty" => (rows = 0 /\ ~success)
    /\ data # "empty" => rows \in ReturnRows
    /\ \E x \in (IF data # "empty" /\ success /\ Cardinality(Range(symbols)) = Len(symbols)
                  THEN Minimizers(symbols, data, risk_tolerance) ELSE {<<>>}) :
            LET o == [prices |-> IF data = "empty" THEN "empty" ELSE "ok",
                      success |-> success,
                      x |-> x,
                      ret |-> IF x = <<>> THEN 0 ELSE PortfolioReturn(symbols, x, data),
                      vol |-> IF x = <<>> THEN 0 ELSE PortfolioVolatility(symbols, x, data)]
            IN  lastOptimize' =
                    [called |-> TRUE, symbols |-> symbols, risk_tolerance |-> risk_tolerance,
                     data |-> data, rows |-> rows,
                     minimized |-> data # "empty" /\ Cardinality(Range(symbols)) = Len(symbols),
                     result |-> optimize(symbols, o)]
    /\ UNCHANGED <<optVars, analyzerVars, trainVars, sentVars, lastTrain, lastFetch, frontVars, pureVars>>

OptimizerNext ==
    \E symbols \in OptimizeSymbolLists, risk_tolerance \in RiskTolerances,
       data \in MarketData, rows \in ReturnRows \cup {0}, success \in BOOLEAN :
        OptimizeCall(symbols, risk_tolerance, data, rows, success)

\* The orders a set of tickers can come in
Orderings(S) == {s \in [1..Cardinality(S) -> S] : Range(s) = S}

\* The symbol lists of the optimize calls whose price table is looked at: two
\* or three distinct tickers in every order
ColumnSymbolLists ==
    UNION {Orderings(S) : S \in {T \in SUBSET Tickers : Cardinality(T) >= 2}}

\* optimize on a price table whose columns come in the order `columns`.  The
\* objective (lines 57-58, 83-84) multiplies the weight vector with the column
\* means and the covariance matrix by position, so x[j] is the weight of column
\* j; lines 95-98 and 107 pair x with `symbols` by position.
OptimizeColumnsCall(symbols, columns, risk_tolerance) ==
    /\ Range(columns) = Range(symbols)
    /\ \E x \in Minimizers(columns, "steady", risk_tolerance) :
            LET o == [prices |-> "ok", success |-> TRUE, x |-> x,
                      ret |-> PortfolioReturn(columns, x, "steady"),
                      vol |-> PortfolioVolatility(columns, x, "steady")]
            IN  lastOptimize' =
                    [called |-> TRUE, symbols |-> symbols, risk_tolerance |-> risk_tolerance,
                     data |-> "steady", rows |-> Max(ReturnRows), minimized |-> TRUE,
                     columns |-> columns,
                     applied |-> DictZip(columns, x),
                     result |-> optimize(symbols, o)]
    /\ UNCHANGED <<optVars, analyzerVars, trainVars, sentVars, lastTrain, lastFetch, frontVars, pureVars>>

ColumnsNext ==
    \E symbols \in ColumnSymbolLists, columns \in ColumnSymbolLists,
       risk_tolerance \in {"moderate", "aggressive"} :
        OptimizeColumnsCall(symbols, columns, risk_tolerance)

-----------------------------------------------------------------------------
(* services/portfolio_optimizer.py: calculate_returns and _risk_metrics, on *)
(* exact quotients                                                          *)

RECURSIVE Gcd(_, _)
Gcd(a, b) == IF b = 0 THEN a ELSE Gcd(b, a % b)

Abs(x) == IF x < 0 THEN -x ELSE x

\* The quotient n / d, d > 0, in lowest terms
Rational(n, d) == LET g == Gcd(Abs(n), d) IN [num |-> n \div g, den |-> d \div g]

RatMul(x, y) == Rational(x.num * y.num, x.den * y.den)
RatLess(x, y) == x.num * y.den < y.num * x.den
RatMax(x, y) == IF RatLess(x, y) THEN y ELSE x
RatMin(x, y) == IF RatLess(y, x) THEN y ELSE x

\* (c - m) / m for m > 0
Relative(c, m) == Rational(c.num * m.den - m.num * c.den, c.den * m.num)

\* prices.pct_change().dropna() for one column: the first day has no return
calculate_returns(prices) ==
    [i \in 1..(Len(prices) - 1) |-> Rational(prices[i + 1] - prices[i], prices[i])]

\* (returns * weights).sum(axis=1) with the single weight 1.0
portfolio_returns(returns) == returns

\* (1 + portfolio_returns).cumprod()
RECURSIVE cumprod(_)
cumprod(r) ==
    IF r = <<>> THEN <<>>
    ELSE LET front == cumprod(SubSeq(r, 1, Len(r) - 1))
             factor == Rational(r[Len(r)].num + r[Len(r)].den, r[Len(r)].den)
         IN  front \o <<IF front = <<>> THEN factor ELSE RatMul(front[Len(front)], factor)>>

\* cumulative.expanding().max()
RECURSIVE expanding_max(_)
expanding_max(c) ==
    IF c = <<>> THEN <<>>
    ELSE LET front == expanding_max(SubSeq(c, 1, Len(c) - 1))
         IN  front \o <<IF front = <<>> THEN c[1] ELSE RatMax(front[Len(front)], c[Len(c)])>>

\* Series.min() of a non-empty series
RECURSIVE SeriesMin(_)
SeriesMin(s) ==
    IF Len(s) = 1 THEN s[1] ELSE RatMin(s[1], SeriesMin(Tail(s)))

\* lines 141-146: max_dd of _risk_metrics for the returns of a price series
max_drawdown(returns) ==
    LET cumulative == cumprod(portfolio_returns(returns))
        rolling_max == expanding_max(cumulative)
        drawdown == [i \in DOMAIN cumulative |-> Relative(cumulative[i], rolling_max[i])]
    IN  SeriesMin(drawdown)

PriceLevels == {50, 100, 200}

\* Price series of two days and more
PriceSeries == UNION {[1..k -> PriceLevels] : k \in 2..MaxDays}

\* optimize computes the returns of the prices and their risk metrics
\* (lines 66 and 103)
RiskMetricsCall(prices) ==
    /\ lastCall' = [called |-> TRUE, fn |-> "_risk_metrics", prices |-> prices,
                    max_drawdown |-> max_drawdown(calculate_returns(prices))]
    /\ UNCHANGED <<optVars, analyzerVars, trainVars, sentVars, lastTrain, lastFetch,
                   lastOptimize, frontVars>>

RiskMetricsNext == \E prices \in PriceSeries : RiskMetricsCall(prices)

-----------------------------------------------------------------------------
(* services/sentiment_analyzer.py: price history and features *)

\* A DataFrame, as far as the code looks at it: its columns and its row count
\* (DataFrame.empty is true when either is zero)
Frame(cols, n) == [columns |-> cols, rows |-> n]
EmptyFrame == Frame({}, 0)
IsEmpty(df) == df.columns = {} \/ df.rows = 0

HistoryLengths == {0, 5, 25}

\* The replies of GET /enhanced-features/market/history: the request raised, a
\* status other than 200, or 200 with `rows` rows that carry the keys `keys`
BackendHistoryReplies ==
    {[kind |-> "exception", keys |-> {}, rows |-> 0],
     [kind |-> "status500", keys |-> {}, rows |-> 0]}
    \cup {[kind |-> "ok", keys |-> K, rows |-> n] :
            K \in {{"date"}, {"date", "close"}, {"date", "close", "volume"}},
            n \in HistoryLengths}

\* More of what the backend request can do: time out, answer 200 with a body
\* that is no JSON, or with rows whose date pd.to_datetime cannot read
BackendAttempts ==
    BackendHistoryReplies
    \cup {[kind |-> "timeout", keys |-> {}, rows |-> 0],
          [kind |-> "malformed", keys |-> {}, rows |-> 0],
          [kind |-> "bad_date", keys |-> {"date", "close", "volume"}, rows |-> 5]}

\* A call that lets the exception through
Uncaught(t, v) == t

\* try: t / except Exception: the handler gives v
Except(t, v) == IF t.raised THEN Returned(v) ELSE t

\* lines 27-45, the body of the try: it raises, returns the frame, or reaches
\* line 48
BackendTry(reply) ==
    IF reply.kind \in {"exception", "timeout", "malformed", "bad_date"}
    THEN Raised(reply.kind)
    ELSE IF /\ reply.kind = "ok"
            /\ reply.rows > 0
            /\ "date" \in reply.keys
            /\ "close" \in reply.keys
    THEN Returned(Frame({"Close"} \cup (IF "volume" \in reply.keys THEN {"Volume"} ELSE {}),
                        reply.rows))
    ELSE Returned(EmptyFrame)

\* _fetch_history_backend_sync: what it raises or returns
fetch_history_backend_outcome(reply) == Except(BackendTry(reply), EmptyFrame)

\* _fetch_history_backend_sync
fetch_history_backend_sync(reply) == fetch_history_backend_outcome(reply).value

\* What yfinance does: the library is absent, history() raises, or it returns a frame
YahooReplies ==
    {[kind |-> "absent", rows |-> 0], [kind |-> "exception", rows |-> 0]}
    \cup {[kind |-> "frame", rows |-> n] : n \in HistoryLengths}

\* yfinance's history() may also return None
YahooAttempts == YahooReplies \cup {[kind |-> "none", rows |-> 0]}

\* lines 55-59, the body of the try
SafeDownloadTry(reply) ==
    IF reply.kind = "exception" THEN Raised(reply.kind)
    ELSE IF reply.kind = "none" \/ reply.rows = 0 THEN Returned(EmptyFrame)
    ELSE Returned(Frame({"Open", "High", "Low", "Close", "Volume"}, reply.rows))

\* _safe_download: what it raises or returns
safe_download_outcome(symbol, reply) ==
    IF reply.kind = "absent" \/ symbol = <<>> THEN Returned(EmptyFrame)
    ELSE Except(SafeDownloadTry(reply), EmptyFrame)

\* _safe_download
safe_download(symbol, reply) == safe_download_outcome(symbol, reply).value

\* What yf.download does for one period: it raises, returns nothing, returns a
\* table whose adjusted closes cannot be taken, or returns a table of prices
DownloadOutcomes == {"raises", "empty", "adj_raises", "frame"}

PriceRows == {40}

\* lines 32-46, one period: the outer try's body with the inner try in it
PeriodTry(symbols, o) ==
    IF o = "raises" THEN Raised(o)
    ELSE IF o = "empty" THEN Returned(EmptyFrame)
    ELSE IF o = "adj_raises" THEN Except(Raised(o), EmptyFrame)
    ELSE Returned(Frame(Range(symbols), CHOOSE n \in PriceRows : TRUE))

\* lines 30-51: the periods are tried in turn until one gives a table
RECURSIVE HistoricalDataLoop(_, _)
HistoricalDataLoop(symbols, attempts) ==
    IF attempts = <<>> THEN Returned(EmptyFrame)
    ELSE LET t == Except(PeriodTry(symbols, Head(attempts)), EmptyFrame)
         IN  IF t.raised THEN t
             ELSE IF ~IsEmpty(t.value) THEN t
             ELSE HistoricalDataLoop(symbols, Tail(attempts))

\* periods = [period, "1y", "6mo"]
Periods == 3

\* PortfolioOptimizer.get_historical_data: what it raises or returns
get_historical_data(symbols, yfPresent, attempts) ==
    IF ~yfPresent \/ symbols = <<>> THEN Returned(EmptyFrame)
    ELSE HistoricalDataLoop(symbols, attempts)

\* periods = [period, "1y", "6mo"], period being "2y" unless the caller gives one
PeriodList == <<"2y", "1y", "6mo">>

\* lines 30-50: the yf.download attempts made, in order, and whether each gave a
\* table that line 45 accepts
RECURSIVE PeriodsTried(_, _, _)
PeriodsTried(symbols, attempts, periods) ==
    IF attempts = <<>> \/ periods = <<>> THEN <<>>
    ELSE LET t == Except(PeriodTry(symbols, Head(attempts)), EmptyFrame)
             yielded == ~IsEmpty(t.value)
         IN  <<[source |-> "yahoo", window |-> Head(periods), yielded |-> yielded]>>
             \o (IF yielded THEN <<>>
                 ELSE PeriodsTried(symbols, Tail(attempts), Tail(periods)))

\* The sources get_historical_data consults, in order
HistoricalDataConsulted(symbols, yfPresent, attempts) ==
    IF ~yfPresent \/ symbols = <<>> THEN <<>>
    ELSE PeriodsTried(symbols, attempts, PeriodList)

\* A caller invokes one of the price-history functions
HistoryBackendCall(reply) ==
    /\ lastFetch' = [called |-> TRUE, fn |-> "_fetch_history_backend_sync",
                     failed |-> reply.kind # "ok",
                     outcome |-> fetch_history_backend_outcome(reply)]
    /\ UNCHANGED <<optVars, analyzerVars, trainVars, sentVars, lastTrain, lastOptimize, frontVars, pureVars>>

SafeDownloadCall(symbol, reply) ==
    /\ lastFetch' = [called |-> TRUE, fn |-> "_safe_download",
                     failed |-> reply.kind # "frame",
                     outcome |-> safe_download_outcome(symbol, reply)]
    /\ UNCHANGED <<optVars, analyzerVars, trainVars, sentVars, lastTrain, lastOptimize, frontVars, pureVars>>

HistoricalDataCall(symbols, yfPresent, attempts) ==
    /\ lastFetch' = [called |-> TRUE, fn |-> "get_historical_data",
                     failed |-> ~yfPresent \/ \A i \in DOMAIN attempts : attempts[i] # "frame",
                     outcome |-> get_historical_data(symbols, yfPresent, attempts),
                     attempts |-> attempts,
                     consulted |-> HistoricalDataConsulted(symbols, yfPresent, attempts)]
    /\ UNCHANGED <<optVars, analyzerVars, trainVars, sentVars, lastTrain, lastOptimize, frontVars, pureVars>>

FetchNext ==
    \/ \E reply \in BackendAttempts : HistoryBackendCall(reply)
    \/ \E symbol \in Tickers \cup {<<>>}, reply \in YahooAttempts : SafeDownloadCall(symbol, reply)
    \/ \E symbols \in SeqsUpTo({<<"A">>, <<"B">>}, 2), yfPresent \in BOOLEAN,
          attempts \in [1..Periods -> DownloadOutcomes] :
            HistoricalDataCall(symbols, yfPresent, attempts)

\* The longest look-back of the indicators: pct_change(20), rolling(window=20)
LongestWindow == 20

\* _features_from_history on a history of distinct, finite closes: the rows left
\* once the rows with an undefined indicator are dropped
features_from_history(df) ==
    IF IsEmpty(df) THEN Returned(0)
    ELSE IF "Close" \notin df.columns THEN Raised("KeyError: 'Close'")
    ELSE IF "Volume" \notin df.columns THEN Raised("KeyError: 'Volume'")
    ELSE Returned(IF df.rows > LongestWindow THEN df.rows - LongestWindow ELSE 0)

\* lines 189-191 and 131-133: backend first, then the Yahoo fallback
FetchHistory(symbol, w) ==
    LET hist == fetch_history_backend_sync(w.backend)
    IN  IF IsEmpty(hist) THEN safe_download(symbol, w.yahoo) ELSE hist

HistoryWorlds == [backend : BackendHistoryReplies, yahoo : YahooReplies]

\* The histories the two sources can deliver for a symbol
Histories(symbol) == {FetchHistory(symbol, w) : w \in HistoryWorlds}

\* forward_days: int = 5
forward_days == 5

\* pos, neg = 0.02, -0.02
pos == Double(1, 50)
neg == Negated(pos)

\* lines 101-106 for one day: fwd from the day's close and the close
\* forward_days later, then the three masked assignments in turn
DayLabel(close, later) ==
    LET fwd == MinusOne(Double(later, close))
        positive == IF FloatLess(pos, fwd) THEN "positive" ELSE NaN
        negative == IF FloatLess(fwd, neg) THEN "negative" ELSE positive
    IN  IF ~FloatLess(fwd, neg) /\ ~FloatLess(pos, fwd) THEN "neutral" ELSE negative

\* _labels_from_close: a day without a close forward_days later has a fwd of
\* NaN, which no mask selects
labels_from_close(close) ==
    [i \in DOMAIN close |->
        IF i + forward_days \in DOMAIN close
        THEN DayLabel(close[i], close[i + forward_days])
        ELSE NaN]

\* Closes in cents, within a factor of two of each other
Closes == {98, 100, 102, 147, 150, 153}

\* Series of six and seven days
CloseSeries ==
    {<<a, 100, 100, 100, 100, b>> : a \in Closes, b \in Closes}
    \cup {<<a, a, 100, 100, 100, b, c>> : a \in Closes, b \in Closes, c \in {98, 102}}

\* A caller invokes _labels_from_close
LabelsCall(close) ==
    /\ lastCall' = [called |-> TRUE, fn |-> "_labels_from_close", close |-> close,
                    labels |-> labels_from_close(close)]
    /\ UNCHANGED <<optVars, analyzerVars, trainVars, sentVars, lastTrain, lastFetch,
                   lastOptimize, frontVars>>

LabelsNext == \E close \in CloseSeries : LabelsCall(close)

\* The look-back each caller asks of the two sources: train_model (lines 131,
\* 133) and predict_sentiment (lines 189, 191)
HistoryCallers ==
    {[fn |-> "train_model", days |-> "365d", period |-> "1y"],
     [fn |-> "predict_sentiment", days |-> "240d", period |-> "6mo"]}

\* The sources lines 131-133 and 189-191 consult, in order
HistoryConsulted(symbol, caller, w) ==
    LET hist == fetch_history_backend_sync(w.backend)
    IN  <<[source |-> "backend", window |-> caller.days, yielded |-> ~IsEmpty(hist)]>>
        \o (IF IsEmpty(hist)
            THEN <<[source |-> "yahoo", window |-> caller.period,
                    yielded |-> ~IsEmpty(safe_download(symbol, w.yahoo))]>>
            ELSE <<>>)

RetrievalWorlds == [backend : BackendAttempts, yahoo : YahooAttempts]

\* train_model or predict_sentiment retrieves the history of a symbol
AnalyzerHistoryCall(symbol, caller, w) ==
    /\ lastFetch' = [called |-> TRUE, fn |-> caller.fn,
                     failed |-> w.backend.kind # "ok" /\ w.yahoo.kind # "frame",
                     outcome |-> Returned(FetchHistory(symbol, w)),
                     consulted |-> HistoryConsulted(symbol, caller, w)]
    /\ UNCHANGED <<optVars, analyzerVars, trainVars, sentVars, lastTrain, lastOptimize, frontVars, pureVars>>

\* The rows of a price series as a source delivers them: a date and a close,
\* the close possibly missing
SourceRows == SeqsUpTo([date : 1..MaxRows, close : {NaN, "100.0"}], MaxRows)

\* DataFrame.sort_index: the rows in ascending order of the index, rows of one
\* date side by side
RECURSIVE InsertByDate(_, _)
InsertByDate(r, s) ==
    IF s = <<>> THEN <<r>>
    ELSE IF r.date < Head(s).date THEN <<r>> \o s
    ELSE <<Head(s)>> \o InsertByDate(r, Tail(s))

RECURSIVE sort_index(_)
sort_index(s) ==
    IF s = <<>> THEN <<>>
    ELSE InsertByDate(s[Len(s)], sort_index(SubSeq(s, 1, Len(s) - 1)))

\* DataFrame.dropna on a table of closes
dropna(s) == SelectSeq(s, LAMBDA r : r.close # NaN)

\* The series each retrieval function returns for the rows its source delivered:
\* _fetch_history_backend_sync (lines 34-45), _safe_download (lines 56-59) and
\* get_historical_data (lines 32-46)
SeriesFunctions == {"_fetch_history_backend_sync", "_safe_download", "get_historical_data"}

ReturnedSeries(fn, rows) ==
    CASE fn = "_fetch_history_backend_sync" -> sort_index(rows)
      [] fn = "_safe_download" -> rows
      [] fn = "get_historical_data" -> dropna(rows)

\* A retrieval function is given rows by its source
SeriesCall(fn, rows) ==
    /\ lastFetch' = [called |-> TRUE, fn |-> fn, rows |-> rows,
                     series |-> ReturnedSeries(fn, rows)]
    /\ UNCHANGED <<optVars, analyzerVars, trainVars, sentVars, lastTrain, lastOptimize, frontVars, pureVars>>

SeriesNext == \E fn \in SeriesFunctions, rows \in SourceRows : SeriesCall(fn, rows)

\* Price retrieval as the analyzer and the optimizer do it
RetrievalNext ==
    \/ \E symbol \in Tickers, caller \in HistoryCallers, w \in RetrievalWorlds :
            AnalyzerHistoryCall(symbol, caller, w)
    \/ \E symbols \in SeqsUpTo({<<"A">>, <<"B">>}, 2), yfPresent \in BOOLEAN,
          attempts \in [1..Periods -> DownloadOutcomes] :
            HistoricalDataCall(symbols, yfPresent, attempts)

-----------------------------------------------------------------------------
(* services/sentiment_analyzer.py: MarketSentimentAnalyzer *)

LatestCommitted == Max(completed \cup {0})

\* How far one train_model call gets.  Every step from line 161 on calls into
\* the libraries with the fetched data and may raise.
TrainOutcomes ==
    {"no_data",             \* line 151: no symbol gave 30 aligned rows
     "split_raises",        \* line 161
     "scaler_fit_raises",   \* line 163, the scaler left as it was
     "scaler_fit_resets",   \* line 163, StandardScaler.fit having reset the scaler first
     "transform_raises",    \* line 164
     "model_fit_raises",    \* line 166
     "metrics_raise",       \* lines 169-174
     "ok"}

\* With no symbol to fetch, X_parts stays empty
TrainOutcomesFor(symbols) == IF symbols = <<>> THEN {"no_data"} ELSE TrainOutcomes

\* train_model as call number id: the analyzer's fields after the call, and
\* whether it raised
train_model(symbols, outcome, id) ==
    LET fitted == outcome \in {"transform_raises", "model_fit_raises", "metrics_raise", "ok"}
        learnt == outcome \in {"metrics_raise", "ok"}
    IN  [raised |-> outcome # "ok",
         scaler |-> IF fitted THEN id
                    ELSE IF outcome = "scaler_fit_resets" THEN 0
                    ELSE scaler,
         model |-> IF learnt THEN id ELSE model,
         is_trained |-> IF learnt THEN TRUE ELSE is_trained,
         last_metrics |-> IF outcome = "ok" THEN id ELSE last_metrics]

\* line 143: the fewest aligned feature/label rows a symbol must give
MinAlignedRows == 30

\* The histories a training meets: no history at all, backend rows without a
\* volume, and Yahoo frames one row short of and just at 30 feature rows
TrainingWorlds ==
    [backend : {[kind |-> "exception", keys |-> {}, rows |-> 0],
                [kind |-> "ok", keys |-> {"date", "close"}, rows |-> 50]},
     yahoo : {[kind |-> "exception", rows |-> 0],
              [kind |-> "frame", rows |-> 49],
              [kind |-> "frame", rows |-> 50]}]

TrainingHistories == {FetchHistory(<<"A">>, w) : w \in TrainingWorlds}

\* The mutation of SymbolRows that lacks line 143's threshold
SymbolRowsAnyLength(hist) ==
    IF IsEmpty(hist) THEN 0
    ELSE LET feats == features_from_history(hist)
         IN  IF feats.raised THEN 0 ELSE feats.value

\* lines 129-148, the loop body for one symbol: the aligned rows it adds to
\* X_parts, 0 when the symbol is skipped.  labels has the index of the closes, so
\* idx is the index of feats.
SymbolRows(hist) ==
    IF IsEmpty(hist) THEN 0                                 \* line 134
    ELSE LET feats == features_from_history(hist)
         IN  IF feats.raised THEN 0                         \* line 147
             ELSE IF feats.value = 0 THEN 0                 \* line 137
             ELSE IF feats.value < MinAlignedRows THEN 0    \* line 143
             ELSE feats.value

\* lines 125-148: X_parts after the loop, hists[i] being the history of symbols[i]
RECURSIVE X_parts(_, _)
X_parts(symbols, hists) ==
    IF symbols = <<>> THEN <<>>
    ELSE LET rest == X_parts(Tail(symbols), Tail(hists))
             rows == SymbolRows(Head(hists))
         IN  IF rows > 0 THEN <<[symbol |-> Head(symbols), rows |-> rows]>> \o rest
             ELSE rest

NoTrainingData == "No valid training data from provided symbols"

\* How far train_model gets with the histories its loop fetched
TrainOutcomesWith(symbols, hists) ==
    IF X_parts(symbols, hists) = <<>> THEN {"no_data"} ELSE TrainOutcomes \ {"no_data"}

\* The symbols lists of the direct train_model invocations
TrainUniverse == << <<"A">>, <<"B">>, <<"C">>, <<"A">> >>

\* A caller invokes analyzer.train_model
TrainModelCall(symbols, hists, outcome) ==
    /\ trainPc = "idle"
    /\ sentPc = "idle"
    /\ trainCalls < MaxDirectCalls
    /\ Len(hists) = Len(symbols)
    /\ outcome \in TrainOutcomesWith(symbols, hists)
    /\ LET id == trainCalls + 1
           r == train_model(symbols, outcome, id)
       IN  /\ scaler' = r.scaler
           /\ model' = r.model
           /\ is_trained' = r.is_trained
           /\ last_metrics' = r.last_metrics
           /\ trainCalls' = id
           /\ completed' = IF r.raised THEN completed ELSE completed \cup {id}
           /\ lastTrain' =
                [called |-> TRUE, symbols |-> symbols, hists |-> hists,
                 parts |-> X_parts(symbols, hists),
                 raised |-> r.raised,
                 error |-> IF outcome = "no_data" THEN NoTrainingData
                           ELSE IF outcome = "ok" THEN "none" ELSE outcome,
                 before |-> <<scaler, model, is_trained, last_metrics>>]
    /\ UNCHANGED <<trainVars, sentVars, optVars, lastFetch, lastOptimize, frontVars, pureVars>>

\* What the classifier may answer: predict's label and predict_proba, in percent
ClassifierOutputs ==
    {[pred |-> "positive", proba |-> [negative |-> 10, neutral |-> 20, positive |-> 70]],
     [pred |-> "neutral", proba |-> [negative |-> 20, neutral |-> 60, positive |-> 20]]}

MaxProba(proba) == Max({proba[c] : c \in DOMAIN proba})

\* Where a sentiment result comes from: the parameters applied and the latest
\* completed training at the time
Origin(kind) ==
    [kind |-> kind,
     scaler |-> IF kind = "model" THEN scaler ELSE 0,
     model |-> IF kind = "model" THEN model ELSE 0,
     epoch |-> LatestCommitted]

\* predict_sentiment, `hist` being the history lines 189-191 fetch
predict_sentiment(symbol, hist, out) ==
    IF ~is_trained
    THEN [raised |-> TRUE, error |-> "Model must be trained before predicting",
          fetched |-> FALSE]
    ELSE
    LET feats == features_from_history(hist)
    IN  IF feats.raised
        THEN [raised |-> TRUE, error |-> feats.error, fetched |-> TRUE]
        ELSE IF feats.value = 0
        THEN [raised |-> FALSE, fetched |-> TRUE,
              from |-> Origin("degraded"),
              value |-> [symbol |-> symbol,
                         combined_sentiment |-> "neutral",
                         confidence |-> 0,
                         timestamp |-> Now]]
        ELSE IF scaler = 0
        THEN [raised |-> TRUE, error |-> "NotFittedError", fetched |-> TRUE]
        ELSE [raised |-> FALSE, fetched |-> TRUE,
              from |-> Origin("model"),
              value |-> [symbol |-> Upper(symbol),
                         technical_sentiment |-> out.pred,
                         technical_probabilities |-> out.proba,
                         news_sentiment |-> [sentiment_label |-> "neutral", confidence |-> 0],
                         combined_sentiment |-> out.pred,
                         confidence |-> MaxProba(out.proba),
                         timestamp |-> Now,
                         modelVersion |-> "rf-tech-1"]]

\* A history that gives no feature row: empty, a column short, or too few rows
NoFeatureRow(hist) ==
    \/ hist.rows = 0
    \/ ~({"Close", "Volume"} \subseteq hist.columns)
    \/ hist.rows <= LongestWindow

\* The record of one predict_sentiment invocation
Invocation(r, hist) ==
    [invoked |-> TRUE, trained |-> is_trained, everCompleted |-> completed # {},
     noFeatureRow |-> NoFeatureRow(hist), result |-> r]

\* A caller invokes analyzer.predict_sentiment
PredictSentimentCall(symbol, hist, out) ==
    /\ trainPc = "idle"
    /\ sentPc = "idle"
    /\ sentRequests < MaxSentimentRequests
    /\ sentRequests' = sentRequests + 1
    /\ lastPredict' = Invocation(predict_sentiment(symbol, hist, out), hist)
    /\ UNCHANGED <<analyzerVars, trainVars, redis, cache, sentPc, sentSym, sentBegan,
                   sentResult, sentResponse, sentLog, optVars, auxVars>>

-----------------------------------------------------------------------------
(* database/redis_client.py and routes/market_prediction.py: the sentiment endpoint *)

NoEntry == [present |-> FALSE]
Entry(body, from) == [present |-> TRUE, body |-> body, from |-> from]

\* cache_get without the try / except of lines 78-85
cache_get_unguarded(key, getOk) ==
    IF ~redis THEN Returned(NoEntry)
    ELSE IF getOk THEN Returned(cache[key]) ELSE Raised("GET failed")

\* cache_get, lines 75-85: what it raises or returns.  Without a client it
\* returns None at once; a GET (or json.loads) that raises is caught.
cache_get_outcome(key, getOk) ==
    IF ~redis THEN Returned(NoEntry)
    ELSE Except(IF getOk THEN Returned(cache[key]) ELSE Raised("GET failed"), NoEntry)

\* cache_get: None without a client or when the GET raises, else the stored value
cache_get(key, getOk) == cache_get_outcome(key, getOk).value

\* cache_set, lines 89-98: what it raises or returns
cache_set_outcome(key, value, ttl, setOk) ==
    IF ~redis THEN Returned(FALSE)
    ELSE Except(IF setOk THEN Returned(TRUE) ELSE Raised("SETEX failed"), FALSE)

\* line 78: ttl=1800
SentimentTtl == 1800

\* cache_set with the ttl the caller passed ignored for the default of line 87
cache_set_default_ttl(key, value, ttl, setOk) ==
    IF redis /\ setOk
    THEN [cache EXCEPT ![key] = [present |-> TRUE, body |-> value.body, from |-> value.from,
                                 ttl |-> 3600]]
    ELSE cache

\* cache_set: the entries after a SETEX, which stores unless it raises
cache_set(key, value, ttl, setOk) ==
    IF redis /\ setOk
    THEN [cache EXCEPT ![key] = [present |-> TRUE, body |-> value.body, from |-> value.from,
                                 ttl |-> ttl]]
    ELSE cache

\* The symbol as the request gave it, with its cache operations still to come
Logged(raw) ==
    [raw |-> raw, get |-> "none", set |-> "none", getRaised |-> FALSE, setReturned |-> "none"]

\* lines 63-76: the trained analyzer's prediction, else the neutral stub
SentimentResult(sym, hist, out) ==
    IF is_trained
    THEN [analyzer |-> TRUE, call |-> predict_sentiment(sym, hist, out)]
    ELSE [analyzer |-> FALSE,
          call |-> [raised |-> FALSE,
                    from |-> Origin("untrained"),
                    value |-> [symbol |-> sym,
                               technical_sentiment |-> "neutral",
                               technical_probabilities |-> [neutral |-> 100],
                               news_sentiment |-> [sentiment_label |-> "neutral", confidence |-> 0],
                               combined_sentiment |-> "neutral",
                               confidence |-> 0,
                               timestamp |-> Now,
                               modelVersion |-> "untrained"]]]

SentimentOk(entry, wasCached, usedAnalyzer) ==
    [status |-> 200, body |-> entry.body, from |-> entry.from, cached |-> wasCached,
     analyzer |-> usedAnalyzer, began |-> sentBegan]

SentimentInputs == { <<" ">>, <<"a">>, <<"A", " ">>, <<" ", "b">> }

SentimentTickers == {Upper(Strip(raw)) : raw \in SentimentInputs} \ {<<>>}

\* lines 54-59: a blank symbol is refused; with a Redis client the handler
\* suspends in cache_get
SentimentBegin(raw) ==
    /\ sentPc = "idle"
    /\ trainPc = "idle"
    /\ sentRequests < MaxSentimentRequests
    /\ LET sym == Upper(Strip(raw))
       IN  /\ sym = <<>> \/ redis
           /\ sentRequests' = sentRequests + 1
           /\ sentBegan' = LatestCommitted
           /\ sentLog' = Logged(raw)
           /\ IF sym = <<>>
              THEN /\ sentResponse' = HTTPException(400, "symbol required")
                   /\ UNCHANGED <<sentPc, sentSym>>
              ELSE /\ sentPc' = "get"
                   /\ sentSym' = sym
                   /\ UNCHANGED sentResponse
    /\ UNCHANGED <<analyzerVars, trainVars, redis, cache, sentResult, lastPredict, optVars, auxVars>>

\* lines 54-83 without a Redis client: cache_get and cache_set return at once and
\* the handler runs to its end
SentimentUncached(raw, hist, out) ==
    /\ sentPc = "idle"
    /\ trainPc = "idle"
    /\ sentRequests < MaxSentimentRequests
    /\ ~redis
    /\ LET sym == Upper(Strip(raw))
           r == SentimentResult(sym, hist, out)
       IN  /\ sym # <<>>
           /\ sentRequests' = sentRequests + 1
           /\ sentBegan' = LatestCommitted
           /\ lastPredict' = IF r.analyzer THEN Invocation(r.call, hist) ELSE lastPredict
           /\ sentLog' =
                [Logged(raw) EXCEPT
                    !.get = "no client",
                    !.getRaised = cache_get_outcome(sym, TRUE).raised,
                    !.set = IF r.call.raised THEN "none" ELSE "no client",
                    !.setReturned =
                        IF r.call.raised THEN "none"
                        ELSE cache_set_outcome(sym, r.call, SentimentTtl, TRUE).value]
           /\ sentResponse' =
                IF r.call.raised THEN HTTPException(500, r.call.error)
                ELSE [SentimentOk(Entry(r.call.value, r.call.from), FALSE, r.analyzer)
                        EXCEPT !.began = LatestCommitted]
    /\ UNCHANGED <<analyzerVars, trainVars, redis, cache, sentPc, sentSym, sentResult,
                   optVars, auxVars>>

\* lines 59-61: the GET found an entry
SentimentCacheHit ==
    /\ sentPc = "get"
    /\ trainPc = "idle"
    /\ cache_get(sentSym, TRUE).present
    /\ sentResponse' = SentimentOk(cache_get(sentSym, TRUE), TRUE, FALSE)
    /\ sentLog' = [sentLog EXCEPT !.get = "hit"]
    /\ sentPc' = "idle"
    /\ UNCHANGED <<analyzerVars, trainVars, redis, cache, sentSym, sentBegan, sentResult,
                   sentRequests, lastPredict, optVars, auxVars>>

\* lines 59-78: the GET found nothing or raised; the result is computed and the
\* handler suspends in cache_set
SentimentCacheMiss(getOk, hist, out) ==
    /\ sentPc = "get"
    /\ trainPc = "idle"
    /\ LET g == cache_get_outcome(sentSym, getOk)
           r == SentimentResult(sentSym, hist, out)
       IN  /\ g.raised \/ ~g.value.present
           /\ sentLog' = [sentLog EXCEPT !.get = IF getOk THEN "miss" ELSE "error",
                                         !.getRaised = g.raised]
           /\ IF g.raised
              THEN /\ sentResponse' = HTTPException(500, g.error)      \* lines 82-83
                   /\ sentPc' = "idle"
                   /\ UNCHANGED <<sentResult, lastPredict>>
              ELSE /\ lastPredict' = IF r.analyzer THEN Invocation(r.call, hist)
                                     ELSE lastPredict
                   /\ IF r.call.raised
                      THEN /\ sentResponse' = HTTPException(500, r.call.error)
                           /\ sentPc' = "idle"
                           /\ UNCHANGED sentResult
                      ELSE /\ sentResult' = [entry |-> Entry(r.call.value, r.call.from),
                                             analyzer |-> r.analyzer]
                           /\ sentPc' = "set"
                           /\ UNCHANGED sentResponse
    /\ UNCHANGED <<analyzerVars, trainVars, redis, cache, sentSym, sentBegan, sentRequests,
                   optVars, auxVars>>

\* lines 78-79: the SETEX is done, or raised, and the result is returned
SentimentCacheSet(setOk) ==
    /\ sentPc = "set"
    /\ trainPc = "idle"
    /\ cache' = cache_set(sentSym, sentResult.entry, SentimentTtl, setOk)
    /\ LET s == cache_set_outcome(sentSym, sentResult.entry, SentimentTtl, setOk)
       IN  /\ sentLog' = [sentLog EXCEPT !.set = IF setOk THEN "stored" ELSE "error",
                                         !.setReturned = IF s.raised THEN "raised" ELSE s.value]
           /\ sentResponse' =
                IF s.raised THEN HTTPException(500, s.error)
                ELSE SentimentOk(sentResult.entry, FALSE, sentResult.analyzer)
    /\ sentPc' = "idle"
    /\ sentResult' = NoEntry
    /\ UNCHANGED <<analyzerVars, trainVars, redis, sentSym, sentBegan, sentRequests,
                   lastPredict, optVars, auxVars>>

\* setex(key, ttl, ...): Redis drops the entry when its 1800 seconds have passed
CacheExpire(key) ==
    /\ trainPc = "idle"
    /\ cache[key].present
    /\ cache' = [cache EXCEPT ![key] = NoEntry]
    /\ UNCHANGED <<analyzerVars, trainVars, redis, sentPc, sentSym, sentBegan, sentResult,
                   sentRequests, sentResponse, sentLog, lastPredict, optVars, auxVars>>

-----------------------------------------------------------------------------
(* routes/market_prediction.py: train_sentiment_model *)

MinTrainSymbols == 3    \* line 95
RetryUniverse == 5      \* line 102: syms[:5]

TrainRequests ==
    { <<>>,
      << <<"a">>, <<" ", "b">> >>,
      << <<" ">>, <<>>, <<" ">> >>,
      << <<"a">>, <<" ">>, <<" ", "b">> >>,
      << <<"a">>, <<" ", "b">>, <<"C">> >>,
      << <<"a">>, <<" ", "b">>, <<"C">>, <<"A", " ">>, <<"a">>, <<"C">> >> }

Prefix(s, n) == SubSeq(s, 1, IF Len(s) < n THEN Len(s) ELSE n)

\* One train_model call made by the handler: the analyzer's fields afterwards
Train(symbols, outcome) ==
    LET id == trainCalls + 1
        r == train_model(symbols, outcome, id)
    IN  /\ scaler' = r.scaler
        /\ model' = r.model
        /\ is_trained' = r.is_trained
        /\ last_metrics' = r.last_metrics
        /\ trainCalls' = id
        /\ completed' = IF r.raised THEN completed ELSE completed \cup {id}

\* The request as it arrives, with the train_model calls made before it and the
\* symbol lists of the train_model calls made for it
TrainLogged(req) == [handled |-> TRUE, req |-> req, calls |-> trainCalls, passed |-> <<>>]

TrainSucceeded(syms, id) ==
    [status |-> 200, success |-> TRUE, symbols |-> syms, metrics |-> id]

\* lines 95-96
TrainReject(req) ==
    /\ trainPc = "idle"
    /\ Len(req) < MinTrainSymbols
    /\ trainLog' = TrainLogged(req)
    /\ trainResponse' = HTTPException(400, "Provide at least 3 symbols for training")
    /\ UNCHANGED <<analyzerVars, trainPc, trainSyms, sentVars, optVars, auxVars>>

\* The first train_model call without line 95's check before it
TrainAttemptAnyLength(req, outcome) ==
    /\ trainPc = "idle"
    /\ trainCalls + 2 <= MaxTrainCalls
    /\ LET syms == CleanSymbols(req)
       IN  /\ outcome \in TrainOutcomesFor(syms)
           /\ trainLog' = [TrainLogged(req) EXCEPT !.passed = <<syms>>]
           /\ Train(syms, outcome)
           /\ IF outcome = "ok"
              THEN /\ trainResponse' = TrainSucceeded(syms, trainCalls + 1)
                   /\ UNCHANGED <<trainPc, trainSyms>>
              ELSE /\ trainPc' = "retry"
                   /\ trainSyms' = syms
                   /\ UNCHANGED trainResponse
    /\ UNCHANGED <<sentVars, optVars, auxVars>>

\* lines 97-100 and 104-109: the first train_model call
TrainAttempt(req, outcome) ==
    /\ trainPc = "idle"
    /\ trainCalls + 2 <= MaxTrainCalls
    /\ Len(req) >= MinTrainSymbols
    /\ LET syms == CleanSymbols(req)
       IN  /\ outcome \in TrainOutcomesFor(syms)
           /\ trainLog' = [TrainLogged(req) EXCEPT !.passed = <<syms>>]
           /\ Train(syms, outcome)
           /\ IF outcome = "ok"
              THEN /\ trainResponse' = TrainSucceeded(syms, trainCalls + 1)
                   /\ UNCHANGED <<trainPc, trainSyms>>
              ELSE /\ trainPc' = "retry"
                   /\ trainSyms' = syms
                   /\ UNCHANGED trainResponse
    /\ UNCHANGED <<sentVars, optVars, auxVars>>

\* The retry without line 102's cut: train_model is given all of `syms` again
TrainRetryWholeList(outcome) ==
    /\ trainPc = "retry"
    /\ outcome \in TrainOutcomesFor(trainSyms)
    /\ Train(trainSyms, outcome)
    /\ trainLog' = [trainLog EXCEPT !.passed = Append(@, trainSyms)]
    /\ trainResponse' =
            IF outcome = "ok" THEN TrainSucceeded(trainSyms, trainCalls + 1)
            ELSE HTTPException(500, outcome)
    /\ trainPc' = "idle"
    /\ trainSyms' = <<>>
    /\ UNCHANGED <<sentVars, optVars, auxVars>>

\* lines 100-113: the second train_model call, on the first five symbols
TrainRetry(outcome) ==
    /\ trainPc = "retry"
    /\ LET short == Prefix(trainSyms, RetryUniverse)
       IN  /\ outcome \in TrainOutcomesFor(short)
           /\ Train(short, outcome)
           /\ trainLog' = [trainLog EXCEPT !.passed = Append(@, short)]
           /\ trainResponse' =
                IF outcome = "ok" THEN TrainSucceeded(trainSyms, trainCalls + 1)
                ELSE HTTPException(500, outcome)
    /\ trainPc' = "idle"
    /\ trainSyms' = <<>>
    /\ UNCHANGED <<sentVars, optVars, auxVars>>

-----------------------------------------------------------------------------
(* Specifications *)

SentInit ==
    /\ scaler = 0
    /\ model = 0
    /\ is_trained = FALSE
    /\ last_metrics = 0
    /\ trainCalls = 0
    /\ completed = {}
    /\ trainPc = "idle"
    /\ trainSyms = <<>>
    /\ trainResponse = [status |-> 0]
    /\ trainLog = [handled |-> FALSE]
    /\ redis \in BOOLEAN
    /\ cache = [t \in SentimentTickers |-> NoEntry]
    /\ sentPc = "idle"
    /\ sentSym = <<>>
    /\ sentBegan = 0
    /\ sentResult = NoEntry
    /\ sentRequests = 0
    /\ sentResponse = [status |-> 0]
    /\ sentLog = Logged(<<>>)
    /\ lastPredict = [invoked |-> FALSE]

SentNext ==
    \/ \E raw \in SentimentInputs : SentimentBegin(raw)
    \/ \E raw \in SentimentInputs :
        \E hist \in Histories(Upper(Strip(raw))), out \in ClassifierOutputs :
            SentimentUncached(raw, hist, out)
    \/ SentimentCacheHit
    \/ \E getOk \in BOOLEAN, hist \in Histories(sentSym), out \in ClassifierOutputs :
            SentimentCacheMiss(getOk, hist, out)
    \/ \E setOk \in BOOLEAN : SentimentCacheSet(setOk)
    \/ \E key \in SentimentTickers : CacheExpire(key)
    \/ \E sym \in SentimentTickers :
        \E hist \in Histories(sym), out \in ClassifierOutputs :
            PredictSentimentCall(sym, hist, out)
    \/ \E req \in TrainRequests : TrainReject(req)
    \/ \E req \in TrainRequests, outcome \in TrainOutcomes : TrainAttempt(req, outcome)
    \/ \E outcome \in TrainOutcomes : TrainRetry(outcome)

\* The sentiment endpoint and its cache, with trainings that succeed
CacheNext ==
    \/ \E raw \in SentimentInputs : SentimentBegin(raw)
    \/ \E raw \in SentimentInputs :
        \E hist \in Histories(Upper(Strip(raw))), out \in ClassifierOutputs :
            SentimentUncached(raw, hist, out)
    \/ SentimentCacheHit
    \/ \E getOk \in BOOLEAN, hist \in Histories(sentSym), out \in ClassifierOutputs :
            SentimentCacheMiss(getOk, hist, out)
    \/ \E setOk \in BOOLEAN : SentimentCacheSet(setOk)
    \/ \E key \in SentimentTickers : CacheExpire(key)
    \/ \E req \in TrainRequests : TrainAttempt(req, "ok")

\* The two endpoints of the market-prediction router, as the service runs them
EndpointsNext ==
    \/ \E raw \in SentimentInputs : SentimentBegin(raw)
    \/ \E raw \in SentimentInputs :
        \E hist \in Histories(Upper(Strip(raw))), out \in ClassifierOutputs :
            SentimentUncached(raw, hist, out)
    \/ SentimentCacheHit
    \/ \E getOk \in BOOLEAN, hist \in Histories(sentSym), out \in ClassifierOutputs :
            SentimentCacheMiss(getOk, hist, out)
    \/ \E setOk \in BOOLEAN : SentimentCacheSet(setOk)
    \/ \E req \in TrainRequests : TrainReject(req)
    \/ \E req \in TrainRequests, outcome \in TrainOutcomes : TrainAttempt(req, outcome)
    \/ \E outcome \in TrainOutcomes : TrainRetry(outcome)

\* The train-sentiment-model endpoint
TrainEndpointNext ==
    \/ \E req \in TrainRequests : TrainReject(req)
    \/ \E req \in TrainRequests, outcome \in TrainOutcomes : TrainAttempt(req, outcome)
    \/ \E outcome \in TrainOutcomes : TrainRetry(outcome)

\* analyzer.train_model, called directly
TrainingNext ==
    \E n \in 0..MaxTrainSymbols :
        \E hists \in [1..n -> TrainingHistories], outcome \in TrainOutcomes :
            TrainModelCall(Prefix(TrainUniverse, n), hists, outcome)

AuxInit ==
    /\ lastTrain = [called |-> FALSE]
    /\ lastFetch = [called |-> FALSE]
    /\ lastOptimize = [called |-> FALSE]
    /\ np_random = [seed |-> 0, drawn |-> 0]
    /\ frontReq = [symbols |-> <<>>, num |-> NoNumber, data |-> "empty"]
    /\ frontResponse = [status |-> 0]
    /\ frontRepeat = FALSE
    /\ lastCall = [called |-> FALSE]

vars == <<optVars, analyzerVars, trainVars, sentVars, auxVars>>

Init == OptInit /\ SentInit /\ AuxInit

Next ==
    \/ OptNext \/ SentNext \/ TrainingNext \/ FrontierNext \/ FetchNext \/ OptimizerNext
    \/ RetrievalNext \/ SeriesNext \/ LabelsNext \/ RiskMetricsNext \/ ColumnsNext

\* The optimize-portfolio endpoint alone
SpecOptimize == Init /\ [][OptNext]_vars

\* The sentiment classifier, its two endpoints and the cache alone
SpecSentiment == Init /\ [][SentNext]_vars

\* optimizer.optimize alone
SpecOptimizer == Init /\ [][OptimizerNext]_vars

\* The price-history functions alone
SpecFetch == Init /\ [][FetchNext]_vars

\* Price retrieval by the analyzer and by the optimizer
SpecRetrieval == Init /\ [][RetrievalNext]_vars

\* The price series the retrieval functions return
SpecSeries == Init /\ [][SeriesNext]_vars

\* The labelling of a close series
SpecLabels == Init /\ [][LabelsNext]_vars

\* The risk metrics of a price series
SpecRiskMetrics == Init /\ [][RiskMetricsNext]_vars

\* optimize on price tables of every column order
SpecColumns == Init /\ [][ColumnsNext]_vars

\* The efficient-frontier endpoint alone
SpecFrontier == Init /\ [][FrontierNext]_vars

\* The sentiment endpoint and its cache
SpecCache == Init /\ [][CacheNext]_vars

\* The market-prediction router: sentiment requests and train requests interleaved
SpecEndpoints == Init /\ [][EndpointsNext]_vars

\* The train-sentiment-model endpoint alone
SpecTrainEndpoint == Init /\ [][TrainEndpointNext]_vars

\* The classifier's training alone
SpecTraining == Init /\ [][TrainingNext]_vars

\* The optimizer keeps no state and shares none with the sentiment classifier
Spec == Init /\ [][Next]_vars

-----------------------------------------------------------------------------
(* Properties of the optimize-portfolio endpoint *)

SolverFailure == "Optimization failed: solver message"
DataUnavailable == "Price data unavailable for symbols"

OptAnswered == optPc = "done" /\ optCalls = 1

\* C1: a validated request whose optimize call failed in the solver is answered
\* with success, every symbol weighted exactly 1/n, and all statistics zero.
C1_SolverFailureGivesEqualWeights ==
    (OptAnswered /\ optError = SolverFailure) =>
        /\ Len(optSymbols) >= 2
        /\ optResponse.status = 200
        /\ LET b == optResponse.body
               n == Len(optSymbols)
           IN  /\ DOMAIN b.weights = Range(optSymbols)
               /\ \A s \in Range(optSymbols) :
                    /\ b.weights[s] * n = Scale
                    /\ b.asset_stats[s].weight * n = Scale
                    /\ b.asset_stats[s].expected_return = 0
                    /\ b.asset_stats[s].volatility = 0
               /\ b.portfolio_stats = [return |-> 0, volatility |-> 0, sharpe_ratio |-> 0]
               /\ b.risk_metrics = [var_95 |-> 0, max_drawdown |-> 0, downside_deviation |-> 0]

C1_Witness ==
    /\ OptAnswered
    /\ optError = SolverFailure
    /\ optPath = "fallback"
    /\ Len(optSymbols) = 3
    /\ optResponse.status = 200

\* C2: a response that substitutes the equal-weight allocation carries
\* fallback = true and a failure reason after the response model is applied, and
\* a response of a successful solve never carries fallback = true.
C2_FallbackFlagDelivered ==
    /\ optPath = "fallback" =>
            /\ optResponse.status = 200
            /\ "fallback" \in DOMAIN optResponse.body
            /\ optResponse.body.fallback = TRUE
            /\ "message" \in DOMAIN optResponse.body
    /\ optPath = "solved" =>
            ~("fallback" \in DOMAIN optResponse.body /\ optResponse.body.fallback = TRUE)

\* C3: when optimize found no price data at all, the caller receives an error and
\* no allocation.
C3_NoDataIsRejected ==
    (OptAnswered /\ optError = DataUnavailable) =>
        /\ optResponse.status # 200
        /\ "body" \notin DOMAIN optResponse

\* C4: with fewer than two symbols left after cleaning and backend validation the
\* request ends in a validation error without optimize having been invoked, and
\* a request with no symbol left after cleaning is rejected with "symbols
\* required" before any backend call.
C4_TooFewSymbolsRejected ==
    /\ (optPc = "done" /\ Len(optSymbols) < 2) =>
            /\ optResponse.status = 400
            /\ optCalls = 0
            /\ optPath = "none"
    /\ (optPc = "done" /\ CleanSymbols(optReq) = <<>>) =>
            /\ optResponse = HTTPException(400, "symbols required")
            /\ optBackendCalls = 0
    /\ (optPc = "posted") => optCalls = 0

C4_Witness ==
    /\ optPc = "done"
    /\ Len(optSymbols) = 1
    /\ Len(CleanSymbols(optReq)) = 2
    /\ optBackendCalls = 1
    /\ optResponse.status = 400

\* C5: every result returned for a validated request has each weight of the
\* symbol-to-weight mapping in [0,1] and the weights of the mapping summing to 1.
C5_WeightsSumToOne ==
    (OptAnswered /\ optResponse.status = 200) =>
        LET w == optResponse.body.weights
        IN  /\ \A s \in DOMAIN w : 0 <= w[s] /\ w[s] <= Scale
            /\ SumDict(w) = Scale

-----------------------------------------------------------------------------
(* Properties of the sentiment classifier and its endpoints *)

UntrainedError == "Model must be trained before predicting"

Predicted == lastPredict.invoked /\ ~lastPredict.result.raised

\* C6: the classifier starts untrained, a train_model call that returns makes it
\* trained, nothing makes it untrained again, and is_trained is never true
\* before some train_model call has returned.
C6_TrainedOnlyBySuccessfulTraining ==
    /\ [](is_trained => completed # {})
    /\ [](completed # {} => is_trained)
    /\ [][is_trained => is_trained']_vars

\* C7: a prediction never applies a mix of old and new trained state: with a
\* classifier fitted by a training that completed, it applies the scaler
\* parameters of that same training.
C7_NoMixedParameters ==
    (/\ Predicted
     /\ lastPredict.result.from.kind = "model"
     /\ lastPredict.result.from.model \in completed) =>
        lastPredict.result.from.scaler = lastPredict.result.from.model

\* C8: a sentiment request that arrives after a training has completed is
\* answered with a result computed under that training or a later one, never one
\* computed under an earlier training or while untrained.
C8_AnsweredFromLatestTraining ==
    sentResponse.status = 200 => sentResponse.from.epoch >= sentResponse.began

\* C9: before any train_model call has returned, predict_sentiment raises the
\* untrained-model error without fetching, and the endpoint answers neutral with
\* confidence 0 without calling the analyzer, and without an error.
C9_UntrainedGivesNoModelLabel ==
    /\ (lastPredict.invoked /\ ~lastPredict.everCompleted) =>
            /\ lastPredict.result.raised
            /\ lastPredict.result.error = UntrainedError
            /\ ~lastPredict.result.fetched
    /\ (sentResponse.status = 200 /\ sentResponse.from.epoch = 0 /\ ~sentResponse.cached) =>
            /\ ~sentResponse.analyzer
            /\ sentResponse.body.combined_sentiment = "neutral"
            /\ sentResponse.body.confidence = 0
    /\ completed = {} => sentResponse.status # 500

\* C10: a trained classifier given a history with no usable feature row returns
\* neutral with confidence 0 and does not raise.
C10_NoFeatureRowDegrades ==
    (lastPredict.invoked /\ lastPredict.trained /\ lastPredict.noFeatureRow) =>
        /\ ~lastPredict.result.raised
        /\ lastPredict.result.value.combined_sentiment = "neutral"
        /\ lastPredict.result.value.confidence = 0

-----------------------------------------------------------------------------
(* Properties of train_model *)

\* A history the training cannot use: it could not be fetched or is empty, it
\* yields no features, or it yields fewer than 30 aligned rows
Unusable(hist) ==
    \/ hist.rows = 0
    \/ ~({"Close", "Volume"} \subseteq hist.columns)
    \/ hist.rows - LongestWindow < 30

RECURSIVE UsableSymbols(_, _)
UsableSymbols(symbols, hists) ==
    IF symbols = <<>> THEN <<>>
    ELSE IF Unusable(Head(hists)) THEN UsableSymbols(Tail(symbols), Tail(hists))
    ELSE <<Head(symbols)>> \o UsableSymbols(Tail(symbols), Tail(hists))

\* C11: train_model skips every symbol whose history is unusable and trains on
\* exactly the others; when no symbol is usable it raises the data-insufficiency
\* error with scaler, classifier, is_trained and last_metrics as they were.
C11_UnusableSymbolsSkipped ==
    lastTrain.called =>
        LET usable == UsableSymbols(lastTrain.symbols, lastTrain.hists)
        IN  /\ [i \in DOMAIN lastTrain.parts |-> lastTrain.parts[i].symbol] = usable
            /\ usable = <<>> =>
                    /\ lastTrain.raised
                    /\ lastTrain.error = NoTrainingData
                    /\ <<scaler, model, is_trained, last_metrics>> = lastTrain.before
            /\ usable # <<>> => lastTrain.error # NoTrainingData

C11_Witness ==
    /\ lastTrain.called
    /\ Len(lastTrain.symbols) = 2
    /\ Unusable(lastTrain.hists[1])
    /\ lastTrain.hists[1].rows = 49
    /\ Len(lastTrain.parts) = 1
    /\ ~lastTrain.raised

\* C12: a train request with fewer than 3 input symbols is answered with the
\* validation error, no train_model call - the only place that fetches price
\* history - having been made for it, and the classifier's state changes in
\* train_model calls only.
C12_ShortTrainRequestRejected ==
    /\ [](/\ trainLog.handled
          /\ Len(trainLog.req) < 3
          => /\ trainResponse.status = 400
             /\ trainPc = "idle"
             /\ trainCalls = trainLog.calls)
    /\ [][trainCalls' = trainCalls =>
            UNCHANGED <<scaler, model, is_trained, last_metrics>>]_vars

C12_Witness ==
    /\ trainLog.handled
    /\ Len(trainLog.req) = 2
    /\ trainLog.calls > 0
    /\ is_trained
    /\ trainResponse.status = 400

\* C25: a train_model call that raised has left the scaler, the classifier,
\* is_trained and last_metrics as they were before the call.
C25_FailedTrainingChangesNothing ==
    (lastTrain.called /\ lastTrain.raised) =>
        <<scaler, model, is_trained, last_metrics>> = lastTrain.before

\* C26: whenever is_trained is true, last_metrics holds the metrics of the
\* training that fitted the scaler and the classifier now in use.
C26_TrainedHasMetricsOfModelInUse ==
    is_trained =>
        /\ last_metrics # 0
        /\ last_metrics = model
        /\ last_metrics = scaler

\* The entries of a symbols list that are not blank
NonBlank(symbols) == SelectSeq(symbols, LAMBDA s : Strip(s) # <<>>)

\* C28: every symbol list train_sentiment_model hands to train_model, in the
\* first call and in the retry, has at least 3 non-blank symbols.
C28_TrainModelGivenThreeSymbols ==
    trainLog.handled =>
        \A i \in DOMAIN trainLog.passed : Len(NonBlank(trainLog.passed[i])) >= 3

\* C29: a train request makes at most two train_model calls; the second is
\* made exactly when the first raised and is given the first five cleaned
\* symbols; the response is the 500 error when both raised and the success
\* response exactly when the last call made returned, the classifier then
\* being trained.
C29_AtMostTwoAttempts ==
    trainLog.handled =>
        LET attempts == Len(trainLog.passed)
            first == trainLog.calls + 1
            answered == trainPc = "idle" /\ attempts >= 1
        IN  /\ attempts <= 2
            /\ trainCalls = trainLog.calls + attempts
            /\ trainPc = "retry" => attempts = 1 /\ first \notin completed
            /\ attempts = 2 =>
                    /\ first \notin completed
                    /\ trainLog.passed[2] = Prefix(CleanSymbols(trainLog.req), 5)
            /\ (answered /\ attempts = 1) => first \in completed
            /\ (answered /\ trainCalls \notin completed) => trainResponse.status = 500
            /\ (answered /\ trainCalls \in completed) =>
                    /\ trainResponse.status = 200
                    /\ trainResponse.success
                    /\ is_trained
            /\ (answered /\ trainResponse.status = 200) =>
                    trainCalls \in completed /\ is_trained

C29_Witness ==
    /\ trainLog.handled
    /\ Len(trainLog.req) > 5
    /\ Len(trainLog.passed) = 2
    /\ Len(trainLog.passed[2]) = 5
    /\ trainPc = "idle"
    /\ trainResponse.status = 200
    /\ is_trained

-----------------------------------------------------------------------------
(* Properties of the efficient frontier *)

\* The requested count, 100 when none is given, clamped to [20,500]
ClampedRequest(x) == Min2(Max2(IF x.given THEN x.value ELSE 100, 20), 500)

\* C13: whatever count is requested, the four lists of a frontier response have
\* the requested count clamped to [20,500] as their length, and entry i of each
\* list describes the portfolio of the i-th weight vector.
C13_FrontierHoldsClampedCount ==
    frontResponse.status = 200 =>
        LET b == frontResponse.body
            n == ClampedRequest(frontReq.num)
            symbols == CleanSymbols(frontReq.symbols)
        IN  /\ Len(b.returns) = n
            /\ Len(b.volatilities) = n
            /\ Len(b.sharpe_ratios) = n
            /\ Len(b.weights) = n
            /\ \A i \in 1..n :
                    /\ Len(b.weights[i]) = Len(symbols)
                    /\ b.returns[i] = PortfolioReturn(symbols, b.weights[i], frontReq.data)
                    /\ b.volatilities[i] =
                            PortfolioVolatility(symbols, b.weights[i], frontReq.data)

\* C14: a frontier call with the symbols, count and price data of the call
\* before it returns the lists that call returned, whatever state the calls
\* before them left the random generator in.
C14_FrontierDeterministic ==
    [][(/\ Answered(frontResponse)
        /\ Answered(frontResponse')
        /\ FrontierCall(frontReq') = FrontierCall(frontReq)) =>
            frontResponse'.body = frontResponse.body]_vars

C14_Witness ==
    /\ frontRepeat
    /\ Answered(frontResponse)
    /\ Len(FrontierCall(frontReq).symbols) = 2
    /\ FrontierCall(frontReq).count = 500

-----------------------------------------------------------------------------
(* Properties of price-history retrieval *)

\* C15: each of the three price-history functions returns a table, empty or
\* not, whatever its attempts do, and an empty one when every attempt failed.
C15_FetchNeverRaises ==
    lastFetch.called =>
        /\ ~lastFetch.outcome.raised
        /\ lastFetch.outcome.value.rows >= 0
        /\ lastFetch.failed => IsEmpty(lastFetch.outcome.value)

C15_Witness ==
    /\ lastFetch.called
    /\ lastFetch.fn = "get_historical_data"
    /\ lastFetch.attempts = <<"raises", "adj_raises", "frame">>
    /\ ~IsEmpty(lastFetch.outcome.value)

\* The attempts a retrieval made on the external source
ExternalAttempts(consulted) == SelectSeq(consulted, LAMBDA a : a.source = "yahoo")

\* The order of the look-back windows, longest first
WindowOrder == <<"2y", "1y", "6mo">>
WindowRank(p) == CHOOSE i \in DOMAIN WindowOrder : WindowOrder[i] = p

\* C21: a retrieval asks the backend first and the external source only when
\* the backend gave no rows; the external attempts take successively shorter
\* windows, the last of them is the only one that gave data, and an attempt
\* that gave none is followed by one with a shorter window while one is left.
C21_BackendThenShrinkingWindows ==
    (lastFetch.called /\ "consulted" \in DOMAIN lastFetch) =>
        LET c == lastFetch.consulted
            ext == ExternalAttempts(c)
        IN  /\ c # <<>> => c[1].source = "backend"
            /\ \A i \in DOMAIN c : i > 1 => c[i].source = "yahoo"
            /\ (ext # <<>>) = (c # <<>> /\ ~c[1].yielded)
            /\ \A i \in DOMAIN ext : i < Len(ext) =>
                    /\ ~ext[i].yielded
                    /\ WindowRank(ext[i].window) < WindowRank(ext[i + 1].window)
            /\ (ext # <<>> /\ ~ext[Len(ext)].yielded) =>
                    WindowRank(ext[Len(ext)].window) = Len(WindowOrder)

\* C22: a non-empty series returned by a retrieval function has strictly
\* ascending dates (so no date twice) and no row whose close is missing.
C22_SeriesSortedDedupedComplete ==
    (lastFetch.called /\ "series" \in DOMAIN lastFetch /\ lastFetch.series # <<>>) =>
        LET series == lastFetch.series
        IN  /\ \A i \in DOMAIN series : i > 1 => series[i - 1].date < series[i].date
            /\ \A i \in DOMAIN series : series[i].close # NaN

-----------------------------------------------------------------------------
(* Properties of _labels_from_close *)

\* The label of a forward return (later - close) / close, judged on the exact quotient
ExactLabel(close, later) ==
    IF 50 * (later - close) > close THEN "positive"
    ELSE IF 50 * (later - close) < -close THEN "negative"
    ELSE "neutral"

\* C23: every day that has a close 5 days later is labelled positive when its
\* forward return is above +2%, negative when it is below -2%, and neutral
\* otherwise, a return of exactly +2% or -2% included.
C23_LabelsFollowForwardReturn ==
    (lastCall.called /\ lastCall.fn = "_labels_from_close") =>
        \A i \in DOMAIN lastCall.close :
            i + 5 \in DOMAIN lastCall.close =>
                lastCall.labels[i] = ExactLabel(lastCall.close[i], lastCall.close[i + 5])

-----------------------------------------------------------------------------
(* Properties of request handling *)

\* C16: while one request's training is in progress, the service can take up
\* another request: a sentiment request with a blank symbol, which needs neither
\* the cache nor the classifier, can be handled.
C16_ServesDuringCompute ==
    (trainPc = "retry" /\ sentPc = "idle" /\ sentRequests < MaxSentimentRequests) =>
        ENABLED (\E raw \in SentimentInputs : SentimentBegin(raw))

-----------------------------------------------------------------------------
(* Properties of optimizer.optimize *)

Optimized == lastOptimize.called /\ ~lastOptimize.result.raised

\* C17: for two assets of which A has the higher return and volatility and B the
\* lower, optimize weights B at least as much as A under "conservative" and A at
\* least as much as B under "aggressive".
C17_RiskToleranceBiasesWeights ==
    (Optimized /\ Range(lastOptimize.symbols) = {<<"A">>, <<"B">>}) =>
        LET w == lastOptimize.result.value.weights
        IN  /\ lastOptimize.risk_tolerance = "conservative" => w[<<"B">>] >= w[<<"A">>]
            /\ lastOptimize.risk_tolerance = "aggressive" => w[<<"A">>] >= w[<<"B">>]

\* C19: a return matrix of fewer than 30 rows is not handed to the solver, and
\* optimize raises.
C19_FewRowsNotOptimized ==
    (lastOptimize.called /\ lastOptimize.data # "empty" /\ lastOptimize.rows < 30) =>
        /\ ~lastOptimize.minimized
        /\ lastOptimize.result.raised

\* C27: the weight optimize reports for a symbol, in weights and in asset_stats,
\* is the weight the solver applied to that symbol's return column, whatever the
\* order of the request's symbols and of the price table's columns.
C27_WeightReportedForOwnColumn ==
    (Optimized /\ "applied" \in DOMAIN lastOptimize) =>
        LET value == lastOptimize.result.value
        IN  \A s \in Range(lastOptimize.symbols) :
                /\ value.weights[s] = lastOptimize.applied[s]
                /\ value.asset_stats[s].weight = value.weights[s]

\* The fall of each day's price from the highest price up to that day, the
\* first day included, and the deepest of them
PeakDrawdown(prices) ==
    SeriesMin([t \in DOMAIN prices |->
        LET peak == Max({prices[s] : s \in 1..t})
        IN  Rational(prices[t] - peak, peak)])

\* C24: the maximum drawdown is never positive and is the deepest fall of the
\* cumulative return index from its running maximum: 0 for prices that never
\* fall, -0.5 for a single fall to half the peak followed by a recovery.
C24_MaxDrawdownIsDeepestFall ==
    (lastCall.called /\ lastCall.fn = "_risk_metrics") =>
        /\ lastCall.max_drawdown.num <= 0
        /\ lastCall.max_drawdown = PeakDrawdown(lastCall.prices)

-----------------------------------------------------------------------------
(* Properties of the sentiment responses and their cache *)

SentimentFields ==
    {"symbol", "technical_sentiment", "technical_probabilities", "combined_sentiment",
     "confidence", "timestamp", "modelVersion"}

\* C18: every sentiment result - from the model, degraded, or given while
\* untrained - has all seven fields of a prediction.
C18_ResponseHasAllFields ==
    /\ sentResponse.status = 200 => SentimentFields \subseteq DOMAIN sentResponse.body
    /\ Predicted => SentimentFields \subseteq DOMAIN lastPredict.result.value

\* C20: the cache key is the symbol stripped and upper-cased; a request whose
\* GET finds an entry is answered with that entry's value, the classifier not
\* invoked and the cache untouched; and a SETEX that goes through stores the
\* result just computed under that key with a TTL of 1800 seconds, the other
\* keys untouched.
C20_SentimentMemoized ==
    /\ [](sentPc # "idle" => sentSym = Upper(Strip(sentLog.raw)))
    /\ [][(/\ sentPc = "get"
           /\ sentPc' # "get"
           /\ cache[sentSym].present
           /\ sentLog'.get # "error") =>
                /\ sentLog'.get = "hit"
                /\ sentResponse'.status = 200
                /\ sentResponse'.body = cache[sentSym].body
                /\ lastPredict' = lastPredict
                /\ cache' = cache]_vars
    /\ [][sentLog'.get = "miss" /\ sentLog.get # "miss" => ~cache[sentSym].present]_vars
    /\ [][(sentPc = "set" /\ sentLog'.set = "stored") =>
                /\ cache'[sentSym].present
                /\ cache'[sentSym].body = sentResponse'.body
                /\ cache'[sentSym].ttl = 1800
                /\ \A k \in DOMAIN cache \ {sentSym} : cache'[k] = cache[k]]_vars

C20_Witness ==
    /\ sentLog.raw = <<"a">>
    /\ sentLog.get = "hit"
    /\ sentResponse.status = 200
    /\ sentResponse.cached
    /\ sentResponse.body.symbol = <<"A">>
    /\ "modelVersion" \in DOMAIN sentResponse.body
    /\ sentResponse.body.modelVersion = "rf-tech-1"
    /\ cache[<<"A">>].present
    /\ cache[<<"A">>].ttl = 1800

\* The request answered last had to do without the cache: no Redis client, or a
\* GET or SETEX that raised
CacheUnavailable ==
    \/ sentLog.get \in {"no client", "error"}
    \/ sentLog.set \in {"no client", "error"}

\* C30: a sentiment request that met no Redis client, or a Redis operation
\* that raised, is answered as it would be without a cache: cache_get did not
\* raise, cache_set returned False, and the response is the result computed for
\* the request, an error only when the analyzer itself raised.
C30_CacheFailureNeverFailsRequest ==
    (sentPc = "idle" /\ CacheUnavailable) =>
        /\ ~sentLog.getRaised
        /\ sentLog.set \in {"no client", "error"} => sentLog.setReturned = FALSE
        /\ \/ /\ sentResponse.status = 200
              /\ ~sentResponse.cached
              /\ sentLog.set \in {"no client", "error", "stored"}
              /\ IF sentResponse.analyzer
                 THEN sentResponse.body = lastPredict.result.value
                 ELSE sentResponse.body.modelVersion = "untrained"
           \/ /\ sentResponse.status = 500
              /\ sentLog.set = "none"
              /\ lastPredict.invoked
              /\ lastPredict.result.raised
              /\ sentResponse.detail = lastPredict.result.error

C30_Witness ==
    /\ sentPc = "idle"
    /\ redis
    /\ sentLog.get = "error"
    /\ sentLog.set = "error"
    /\ sentLog.setReturned = FALSE
    /\ sentResponse.status = 200
    /\ sentResponse.analyzer
    /\ "modelVersion" \in DOMAIN sentResponse.body

=============================================================================
